---- MODULE Spec2Model ----
(***************************************************************************)
(* Duplicate photo finder: duplicated_img_detect_improved.py.              *)
(*                                                                         *)
(* Three specifications share the variables below:                         *)
(*   Spec        the scan: probe, enumeration, thread pool, collection,    *)
(*               grouping (process_images_parallel);                       *)
(*   SpecRemove  the removal executor (remove_duplicate_files);            *)
(*   SpecSel     the selection policy (suggest_best_file) as a function.   *)
(*                                                                         *)
(* Python values: an Optional[T] is a tuple, <<>> for None and <<v>> for   *)
(* a value v.  A dict is a sequence of entries in insertion order.         *)
(***************************************************************************)
EXTENDS Integers, Sequences, FiniteSets, TLC

\* ---------------------------------------------------------------- bounds
NumPaths == 3        \* files in the scanned directory tree
MaxWorkers == 2      \* largest pool size tried
MaxContent == 2      \* distinct byte contents a file can have
MaxGroupLen == 3     \* longest list handed to suggest_best_file in SpecSel
NumFiles == 5        \* files on disk when remove_duplicate_files runs

\* --------------------------------------------------------- Python values
None == <<>>
Some(v) == <<v>>

\* `x or default` for an Optional str: None and "" are falsy.
OrStr(x, default) == IF x = None \/ x[1] = "" THEN default ELSE x[1]

\* `x or default` for an Optional tuple: None is falsy, any pair is truthy.
OrPair(x, default) == IF x = None THEN default ELSE x[1]

RECURSIVE SeqSum(_)
SeqSum(s) == IF s = <<>> THEN 0 ELSE Head(s) + SeqSum(Tail(s))

Range(s) == {s[i] : i \in 1..Len(s)}

\* ------------------------------------------------------------ file system
Paths == 1..NumPaths

\* Path.suffix.lower(): odd paths are RAW files, even ones standard images.
Suffix(p) == IF p % 2 = 1 THEN ".arw" ELSE ".jpg"

StandardExts == {".jpg", ".jpeg", ".png", ".tiff", ".tif", ".gif", ".bmp"}

Contents == 1..MaxContent

\* st_size of a file with content c, and the hex digest of its bytes.
SizeOf(c) == c * 1000000
DigestOf(c) == IF c = 1 THEN "h1" ELSE IF c = 2 THEN "h2" ELSE "h3"

\* ------------------------------------------------- external tool results
(* A subprocess.run of exiftool: exc is a raised exception (timeout, tool   *)
(* missing), rc the return code, out the captured standard output.  For    *)
(* the dimension query, out is a sequence of tokens: an integer literal,   *)
(* the separator "x", a newline "nl" or other text "junk".                 *)
Tok(k, v) == [k |-> k, v |-> v]
IntTok(n) == Tok("int", n)
XTok == Tok("x", 0)
NlTok == Tok("nl", 0)
JunkTok == Tok("junk", 0)

Run(exc, rc, out) == [exc |-> exc, rc |-> rc, out |-> out]

\* str.strip() on a token sequence: drop leading and trailing whitespace.
RECURSIVE LStrip(_)
LStrip(s) == IF s # <<>> /\ Head(s).k = "nl" THEN LStrip(Tail(s)) ELSE s

RECURSIVE RStrip(_)
RStrip(s) ==
    IF s # <<>> /\ s[Len(s)].k = "nl" THEN RStrip(SubSeq(s, 1, Len(s) - 1)) ELSE s

Strip(s) == RStrip(LStrip(s))

\* `sep in s`
Contains(s, sep) == \E i \in 1..Len(s) : s[i].k = sep

\* s.split(sep): the pieces between the separators, empty pieces included.
RECURSIVE Split(_, _)
Split(s, sep) ==
    IF ~Contains(s, sep) THEN <<s>>
    ELSE LET i == CHOOSE j \in 1..Len(s) :
                      s[j].k = sep /\ \A m \in 1..(j - 1) : s[m].k # sep
         IN  <<SubSeq(s, 1, i - 1)>> \o Split(SubSeq(s, i + 1, Len(s)), sep)

\* int(text): Some(n) for one integer literal with optional surrounding
\* whitespace, None where Python raises ValueError.
PyInt(s) ==
    LET t == Strip(s)
    IN  IF Len(t) = 1 /\ t[1].k = "int" THEN Some(t[1].v) ELSE None

\* `width, height = text.split(sep)` then `(int(width), int(height))`;
\* a wrong number of pieces or a ValueError gives None.
ParsePair(s, sep) ==
    LET parts == Split(s, sep)
    IN  IF Len(parts) # 2 THEN None
        ELSE IF PyInt(parts[1]) = None \/ PyInt(parts[2]) = None THEN None
        ELSE Some(<<PyInt(parts[1])[1], PyInt(parts[2])[1]>>)

\* check_exiftool_exists: True exactly when the version query returned 0.
check_exiftool_exists(run) == ~run.exc /\ run.rc = 0

\* get_camera_model_single: the stripped output of a successful call.
get_camera_model_single(run) ==
    IF ~run.exc /\ run.rc = 0 /\ run.out # "" THEN Some(run.out) ELSE None

get_image_resolution_exiftool(run) ==
    IF run.exc THEN None
    ELSE IF run.rc = 0 /\ Strip(run.out) # <<>>
         THEN LET dimensions == Strip(run.out)
              IN  IF Contains(dimensions, "x") THEN ParsePair(dimensions, "x")
                  ELSE IF Contains(dimensions, "nl") THEN ParsePair(dimensions, "nl")
                  ELSE None
         ELSE None

(* A step's outcome: the value it returns and the calls it made to get     *)
(* there, in program order: "stat_ok"/"stat_fail", "exif_model",           *)
(* "hash_ok"/"hash_fail", "pil_ok"/"pil_fail", "exif_res".                 *)
Did(value, made) == [value |-> value, calls |-> made]

\* Mutant of get_image_resolution: the tool is asked whatever the probe said.
get_image_resolution_unguarded(image_path, available, pil, run) ==
    LET file_ext == Suffix(image_path)
    IN  IF file_ext = ".arw"
        THEN Did(get_image_resolution_exiftool(run), <<"exif_res">>)
        ELSE IF file_ext \in StandardExts
        THEN IF pil # None THEN Did(pil, <<"pil_ok">>)
             ELSE Did(get_image_resolution_exiftool(run),
                      <<"pil_fail", "exif_res">>)
        ELSE Did(None, <<>>)

\* Mutant of get_image_resolution: an available tool is asked before the
\* native decode of a standard format is tried.
get_image_resolution_tool_first(image_path, available, pil, run) ==
    LET file_ext == Suffix(image_path)
    IN  IF file_ext = ".arw" /\ available
        THEN Did(get_image_resolution_exiftool(run), <<"exif_res">>)
        ELSE IF file_ext \in StandardExts
        THEN IF available
             THEN Did(get_image_resolution_exiftool(run), <<"exif_res">>)
             ELSE IF pil # None THEN Did(pil, <<"pil_ok">>)
             ELSE Did(None, <<"pil_fail">>)
        ELSE Did(None, <<>>)

\* pil is Image.open(...).size, None when PIL raises.
get_image_resolution(image_path, available, pil, run) ==
    LET file_ext == Suffix(image_path)
    IN  IF file_ext = ".arw" /\ available
        THEN Did(get_image_resolution_exiftool(run), <<"exif_res">>)
        ELSE IF file_ext \in StandardExts
        THEN IF pil # None THEN Did(pil, <<"pil_ok">>)
             ELSE IF available
                  THEN Did(get_image_resolution_exiftool(run),
                           <<"pil_fail", "exif_res">>)
                  ELSE Did(None, <<"pil_fail">>)
        ELSE Did(None, <<>>)

\* Mutant of calculate_image_hash: a failed read returns the digest of the
\* bytes hashed so far, here the digest of the first content.
calculate_image_hash_partial(digest) ==
    IF digest = None THEN Did(Some(DigestOf(1)), <<"hash_fail">>)
    ELSE Did(digest, <<"hash_ok">>)

\* digest is the hex digest, None when reading the file raises.
calculate_image_hash(digest) ==
    IF digest = None THEN Did(None, <<"hash_fail">>)
    ELSE Did(digest, <<"hash_ok">>)

\* stat is st_size, None when stat raises.
get_file_size(stat) ==
    IF stat = None THEN Did(0, <<"stat_fail">>) ELSE Did(stat[1], <<"stat_ok">>)

ImageMetadata(path, file_size, hash, camera_model, resolution) ==
    [path |-> path, file_size |-> file_size, hash |-> hash,
     camera_model |-> camera_model, resolution |-> resolution]

\* Mutant of get_identifier: the identifier leaves the resolution out.
get_identifier_no_resolution(m) ==
    <<OrStr(m.camera_model, ""), OrStr(m.hash, ""), <<0, 0>>, m.file_size>>

get_identifier(m) ==
    <<OrStr(m.camera_model, ""), OrStr(m.hash, ""),
      OrPair(m.resolution, <<0, 0>>), m.file_size>>

(* What the environment does to one extraction: access is the outcome of   *)
(* os.access(R_OK) ("ok", "denied", or "raise" for an exception inside the *)
(* try block), stat and digest the outcomes of the size and hash steps,    *)
(* cam and res the exiftool runs, pil the native decode.                   *)
Env(a, stat, digest, cam, pil, res) ==
    [access |-> a, stat |-> stat, digest |-> digest,
     cam |-> cam, pil |-> pil, res |-> res]

\* Mutant of process_single_image: an unreadable file gets an empty record.
process_single_image_empty_record(image_path, available, env) ==
    IF env.access = "raise" THEN Did(None, <<>>)
    ELSE IF env.access = "denied"
    THEN Did(Some(ImageMetadata(image_path, 0, None, None, None)), <<>>)
    ELSE LET file_size == get_file_size(env.stat)
             camera_model == IF available
                             THEN Did(get_camera_model_single(env.cam),
                                      <<"exif_model">>)
                             ELSE Did(None, <<>>)
             img_hash == calculate_image_hash(env.digest)
             resolution == get_image_resolution(image_path, available,
                                                env.pil, env.res)
         IN  Did(Some(ImageMetadata(image_path, file_size.value,
                                    img_hash.value, camera_model.value,
                                    resolution.value)),
                 file_size.calls \o camera_model.calls \o img_hash.calls
                     \o resolution.calls)

\* Mutant of process_single_image: a failed hash read loses the record.
process_single_image_hash_aborts(image_path, available, env) ==
    IF env.access # "ok" THEN Did(None, <<>>)
    ELSE LET file_size == get_file_size(env.stat)
             camera_model == IF available
                             THEN Did(get_camera_model_single(env.cam),
                                      <<"exif_model">>)
                             ELSE Did(None, <<>>)
             img_hash == calculate_image_hash(env.digest)
             resolution == get_image_resolution(image_path, available,
                                                env.pil, env.res)
         IN  IF img_hash.value = None
             THEN Did(None, file_size.calls \o camera_model.calls
                                \o img_hash.calls)
             ELSE Did(Some(ImageMetadata(image_path, file_size.value,
                                         img_hash.value, camera_model.value,
                                         resolution.value)),
                      file_size.calls \o camera_model.calls \o img_hash.calls
                          \o resolution.calls)

process_single_image(image_path, available, env) ==
    IF env.access # "ok" THEN Did(None, <<>>)
    ELSE LET file_size == get_file_size(env.stat)
             camera_model == IF available
                             THEN Did(get_camera_model_single(env.cam),
                                      <<"exif_model">>)
                             ELSE Did(None, <<>>)
             img_hash == calculate_image_hash(env.digest)
             resolution == get_image_resolution(image_path, available,
                                                env.pil, env.res)
         IN  Did(Some(ImageMetadata(image_path, file_size.value,
                                    img_hash.value, camera_model.value,
                                    resolution.value)),
                 file_size.calls \o camera_model.calls \o img_hash.calls
                     \o resolution.calls)

\* ------------------------------------------------ environment outcomes
Accesses == {"ok", "denied", "raise"}

ProbeRuns == {Run(TRUE, 0, ""), Run(FALSE, 1, ""), Run(FALSE, 0, "12.40")}

CameraRuns ==
    {Run(TRUE, 0, ""), Run(FALSE, 1, "A"), Run(FALSE, 0, ""), Run(FALSE, 0, "A")}

PilResults == {None, Some(<<4, 3>>)}

ResolutionRuns ==
    {Run(TRUE, 0, <<>>),
     Run(FALSE, 1, <<IntTok(4), XTok, IntTok(3)>>),
     Run(FALSE, 0, <<>>),
     Run(FALSE, 0, <<IntTok(4), XTok, IntTok(3)>>),
     Run(FALSE, 0, <<IntTok(4), NlTok, IntTok(3), NlTok>>),
     Run(FALSE, 0, <<IntTok(0), XTok, IntTok(0)>>),
     Run(FALSE, 0, <<JunkTok>>)}

\* size and digest of a file with content c; reading it may fail (hashed
\* FALSE) and so may its stat (sized FALSE).
FileReads ==
    {[stat |-> IF sized THEN Some(SizeOf(c)) ELSE None,
      digest |-> IF hashed THEN Some(DigestOf(c)) ELSE None] :
        c \in Contents, sized \in BOOLEAN, hashed \in BOOLEAN}

\* Every combination of outcomes one extraction can meet.
Envs ==
    {Env(a, f.stat, f.digest, cam, pil, res) :
        a \in Accesses, f \in FileReads,
        cam \in CameraRuns, pil \in PilResults, res \in ResolutionRuns}

\* The outcomes drawn during a scan of several files: stat succeeds, the
\* tool answers with a model and "4x3" or times out.
ScanEnvs ==
    {e \in Envs :
        /\ e.stat # None
        /\ e.cam \in {Run(TRUE, 0, ""), Run(FALSE, 0, "A")}
        /\ e.res \in {Run(TRUE, 0, <<>>),
                      Run(FALSE, 0, <<IntTok(4), XTok, IntTok(3)>>)}}

\* ------------------------------------------------------------- grouping
\* A dict is a sequence of entries [key, val]; `key in d`:
HasKey(d, k) == \E i \in 1..Len(d) : d[i].key = k

IndexOf(d, k) == CHOOSE i \in 1..Len(d) : d[i].key = k

\* One pass of the loop body: setdefault-and-append under the identifier.
\* Mutant of AddToGroup: a record whose key is present replaces the list.
AddToGroupOverwrite(d, m) ==
    LET identifier == get_identifier(m)
    IN  IF ~HasKey(d, identifier)
        THEN Append(d, [key |-> identifier, val |-> <<m>>])
        ELSE [d EXCEPT ![IndexOf(d, identifier)].val = <<m>>]

\* Mutant of AddToGroup: a record joins the front of its group's list.
AddToGroupInFront(d, m) ==
    LET identifier == get_identifier(m)
    IN  IF ~HasKey(d, identifier)
        THEN Append(d, [key |-> identifier, val |-> <<m>>])
        ELSE [d EXCEPT ![IndexOf(d, identifier)].val = <<m>> \o @]

AddToGroup(d, m) ==
    LET identifier == get_identifier(m)
    IN  IF ~HasKey(d, identifier)
        THEN Append(d, [key |-> identifier, val |-> <<m>>])
        ELSE [d EXCEPT ![IndexOf(d, identifier)].val = Append(@, m)]

\* for metadata in image_metadata_list: ...
RECURSIVE GroupByIdentifier(_, _)
GroupByIdentifier(d, list) ==
    IF list = <<>> THEN d
    ELSE GroupByIdentifier(AddToGroup(d, Head(list)), Tail(list))

\* Mutant of IsDuplicateGroup: the filter is off by one.
IsDuplicateGroupFromOne(v) == Len(v) >= 1

\* The filter a returned group has to pass.
IsDuplicateGroup(v) == Len(v) > 1

\* {k: v for k, v in duplicates.items() if len(v) > 1}
RECURSIVE OnlyDuplicates(_)
OnlyDuplicates(d) ==
    IF d = <<>> THEN <<>>
    ELSE (IF IsDuplicateGroup(Head(d).val) THEN <<Head(d)>> ELSE <<>>)
         \o OnlyDuplicates(Tail(d))

\* ---------------------------------------------------------------- state
VARIABLES
    pc,                  \* position of the orchestrating thread
    exiftool_available,  \* Optional bool: None until the probe has returned
    probes,              \* how many times the probe has run
    max_workers,         \* pool size
    image_paths,         \* the enumerated paths, in submission order
    submitted,           \* how many of image_paths have been submitted
    submits,             \* per path: number of executor.submit calls
    task,                \* per path: state of its future
    task_flag,           \* per path: the exiftool_available argument it got
    future,              \* per path: Optional ImageMetadata the call returned
    access,              \* per path: outcome of the read-permission check
    calls,               \* per path: external/native calls made, in order
    image_metadata_list, \* records collected so far
    duplicates           \* the mapping process_images_parallel returns

scanVars ==
    <<pc, exiftool_available, probes, max_workers, image_paths, submitted,
      submits, task, task_flag, future, access, calls, image_metadata_list,
      duplicates>>

VARIABLES
    rpc,                \* position inside remove_duplicate_files
    auto_select_best,   \* argument
    group_by_group,     \* argument
    gi,                 \* 1-based position in duplicates.items()
    mi,                 \* 0-based idx of the member loop
    keep_idx,           \* index of the file to keep in the current group
    total_removed,
    total_space_saved,
    exists,             \* paths present on disk
    deleted,            \* paths os.remove has removed
    attempted,          \* paths whose removal has been tried
    failed,             \* paths skipped: no write permission, or remove raised
    kept,               \* per group: keep_idx once chosen, else -1
    processed,          \* groups whose member loop has finished
    report,             \* Optional <<removed, saved>> of the final print
    global_answer,      \* Optional: what the operator typed at the global prompt
    group_answer,       \* Optional: the answer that let the current group in
    keep_answer,        \* Optional: the keep prompt's answer for the current group
    declined            \* groups whose prompt was answered with a skip

removeVars ==
    <<rpc, auto_select_best, group_by_group, gi, mi, keep_idx, total_removed,
      total_space_saved, exists, deleted, attempted, failed, kept, processed,
      report, global_answer, group_answer, keep_answer, declined>>

VARIABLES
    sel_group,          \* the list handed to suggest_best_file
    sel_first,          \* Optional index returned by the first call
    sel_second          \* Optional index returned by a repeated call

selVars == <<sel_group, sel_first, sel_second>>

VARIABLES
    ext_path,           \* the path handed to one process_single_image call
    ext_flag,           \* its exiftool_available argument
    ext_env,            \* Optional: what the environment does to that call
    ext_out             \* Optional: the call's outcome (value and calls)

extVars == <<ext_path, ext_flag, ext_env, ext_out>>

VARIABLES
    parse_run,          \* Optional: one exiftool run of the dimension query
    parse_out           \* Optional: what get_image_resolution_exiftool returned

parseVars == <<parse_run, parse_out>>

vars == <<scanVars, removeVars, selVars, extVars, parseVars>>

ExtIdle ==
    /\ ext_path = 0
    /\ ext_flag = FALSE
    /\ ext_env = None
    /\ ext_out = None

ParseIdle ==
    /\ parse_run = None
    /\ parse_out = None

\* Ascending sequence of a set of paths.
RECURSIVE SortedSeq(_)
SortedSeq(S) ==
    IF S = {} THEN <<>>
    ELSE LET m == CHOOSE x \in S : \A y \in S : x <= y
         IN  <<m>> \o SortedSeq(S \ {m})

ScanInit ==
    /\ pc = "probe"
    /\ exiftool_available = None
    /\ probes = 0
    /\ max_workers \in 1..MaxWorkers
    /\ image_paths = <<>>
    /\ submitted = 0
    /\ submits = [p \in Paths |-> 0]
    /\ task = [p \in Paths |-> "none"]
    /\ task_flag = [p \in Paths |-> None]
    /\ future = [p \in Paths |-> None]
    /\ access = [p \in Paths |-> "unchecked"]
    /\ calls = [p \in Paths |-> <<>>]
    /\ image_metadata_list = <<>>
    /\ duplicates = <<>>

\* exiftool_available = check_exiftool_exists()
Probe ==
    /\ pc = "probe"
    /\ \E run \in ProbeRuns :
           exiftool_available' = Some(check_exiftool_exists(run))
    /\ probes' = probes + 1
    /\ pc' = "enumerate"
    /\ UNCHANGED <<max_workers, image_paths, submitted, submits, task,
                   task_flag, future, access, calls, image_metadata_list, duplicates>>
    /\ UNCHANGED <<removeVars, selVars, extVars, parseVars>>

\* image_paths = [p for p in Path(directory).rglob("*.*") if ...]
Enumerate ==
    /\ pc = "enumerate"
    /\ \E S \in SUBSET Paths : image_paths' = SortedSeq(S)
    /\ pc' = "submit"
    /\ UNCHANGED <<exiftool_available, probes, max_workers, submitted, submits,
                   task, task_flag, future, access, calls, image_metadata_list,
                   duplicates>>
    /\ UNCHANGED <<removeVars, selVars, extVars, parseVars>>

\* Mutant of SubmitArgs: the path is bound late, every call gets the last.
SubmitArgsLateBound(i) ==
    [path |-> image_paths[Len(image_paths)], flag |-> exiftool_available]

\* Mutant of SubmitArgs: the flag is a default instead of the probe's result.
SubmitArgsDefaultFlag(i) == [path |-> image_paths[i], flag |-> Some(TRUE)]

\* The arguments of the i-th executor.submit(process_single_image, ...).
SubmitArgs(i) == [path |-> image_paths[i], flag |-> exiftool_available]

\* One executor.submit of the dict comprehension.
Submit ==
    /\ pc = "submit"
    /\ submitted < Len(image_paths)
    /\ LET args == SubmitArgs(submitted + 1)
       IN  /\ submits' = [submits EXCEPT ![args.path] = @ + 1]
           /\ task' = [task EXCEPT ![args.path] = "queued"]
           /\ task_flag' = [task_flag EXCEPT ![args.path] = args.flag]
    /\ submitted' = submitted + 1
    /\ UNCHANGED <<pc, exiftool_available, probes, max_workers, image_paths,
                   future, access, calls, image_metadata_list, duplicates>>
    /\ UNCHANGED <<removeVars, selVars, extVars, parseVars>>

\* The comprehension is exhausted: enter the as_completed loop.
SubmitDone ==
    /\ pc = "submit"
    /\ submitted = Len(image_paths)
    /\ pc' = "collect"
    /\ UNCHANGED <<exiftool_available, probes, max_workers, image_paths,
                   submitted, submits, task, task_flag, future, access, calls,
                   image_metadata_list, duplicates>>
    /\ UNCHANGED <<removeVars, selVars, extVars, parseVars>>

Running == {p \in Paths : task[p] = "running"}

\* First queued path in submission order (the pool's work queue is FIFO).
IsNextQueued(p) ==
    \E i \in 1..Len(image_paths) :
        /\ image_paths[i] = p
        /\ task[p] = "queued"
        /\ \A j \in 1..(i - 1) : task[image_paths[j]] # "queued"

\* A free worker thread takes the next work item.
StartTask(p) ==
    /\ IsNextQueued(p)
    /\ Cardinality(Running) < max_workers
    /\ task' = [task EXCEPT ![p] = "running"]
    /\ UNCHANGED <<pc, exiftool_available, probes, max_workers, image_paths,
                   submitted, submits, task_flag, future, access, calls,
                   image_metadata_list, duplicates>>
    /\ UNCHANGED <<removeVars, selVars, extVars, parseVars>>

\* Mutant of AfterRun: a timed-out camera call puts the work item back.
AfterRunRetry(env) == IF env.cam.exc THEN "queued" ELSE "finished"

\* The state of a future once its call has run under env: every exiftool
\* call returns or times out inside the call, and nothing is run again.
AfterRun(env) == "finished"

\* The worker runs process_single_image(path, exiftool_available) to its end.
FinishTask(p) ==
    /\ task[p] = "running"
    /\ \E env \in ScanEnvs :
           LET done == process_single_image(p, task_flag[p][1], env)
           IN  /\ future' = [future EXCEPT ![p] = done.value]
               /\ calls' = [calls EXCEPT ![p] = @ \o done.calls]
               /\ access' = [access EXCEPT ![p] = env.access]
               /\ task' = [task EXCEPT ![p] = AfterRun(env)]
    /\ UNCHANGED <<pc, exiftool_available, probes, max_workers, image_paths,
                   submitted, submits, task_flag, image_metadata_list,
                   duplicates>>
    /\ UNCHANGED <<removeVars, selVars, extVars, parseVars>>

\* Mutant of Gathered: a failed extraction empties the list.
GatheredOrReset(list, metadata) ==
    IF metadata # None THEN Append(list, metadata[1]) ELSE <<>>

\* `if metadata: image_metadata_list.append(metadata)`
Gathered(list, metadata) ==
    IF metadata # None THEN Append(list, metadata[1]) ELSE list

\* One iteration of `for future in as_completed(future_to_path)`.
Collect(p) ==
    /\ pc = "collect"
    /\ task[p] = "finished"
    /\ image_metadata_list' = Gathered(image_metadata_list, future[p])
    /\ task' = [task EXCEPT ![p] = "collected"]
    /\ UNCHANGED <<pc, exiftool_available, probes, max_workers, image_paths,
                   submitted, submits, task_flag, future, access, calls, duplicates>>
    /\ UNCHANGED <<removeVars, selVars, extVars, parseVars>>

\* Every future has been yielded: leave the pool, group, filter and return.
Group ==
    /\ pc = "collect"
    /\ \A i \in 1..Len(image_paths) : task[image_paths[i]] = "collected"
    /\ duplicates' = OnlyDuplicates(GroupByIdentifier(<<>>, image_metadata_list))
    /\ pc' = "done"
    /\ UNCHANGED <<exiftool_available, probes, max_workers, image_paths,
                   submitted, submits, task, task_flag, future, access, calls,
                   image_metadata_list>>
    /\ UNCHANGED <<removeVars, selVars, extVars, parseVars>>

\* ------------------------------------------------------ selection policy
(* score = resolution_score * 0.9 + (file_size / 1000000) * 0.1, kept here  *)
(* exactly as 10^7 * score, an integer; max_score starts at -1.            *)
ResolutionScore(m) ==
    IF m.resolution # None THEN m.resolution[1][1] * m.resolution[1][2] ELSE 0

Score(m) == ResolutionScore(m) * 9000000 + m.file_size

InitialMaxScore == 0 - 10000000

\* Mutant of Beats: a later record with an equal score replaces the best.
BeatsOrTies(score, max_score) == score >= max_score

\* `if score > max_score`
Beats(score, max_score) == score > max_score

\* The loop of suggest_best_file from 0-based index idx on.
RECURSIVE BestFrom(_, _, _, _)
BestFrom(group, idx, best_idx, max_score) ==
    IF idx >= Len(group) THEN best_idx
    ELSE LET score == Score(group[idx + 1])
         IN  IF Beats(score, max_score)
             THEN BestFrom(group, idx + 1, idx, score)
             ELSE BestFrom(group, idx + 1, best_idx, max_score)

suggest_best_file(group) == BestFrom(group, 0, 0, InitialMaxScore)

\* ---------------------------------------------------- removal executor
RemoveIdle ==
    /\ rpc = "idle"
    /\ auto_select_best = FALSE
    /\ group_by_group = FALSE
    /\ gi = 0
    /\ mi = 0
    /\ keep_idx = 0
    /\ total_removed = 0
    /\ total_space_saved = 0
    /\ exists = {}
    /\ deleted = {}
    /\ attempted = {}
    /\ failed = {}
    /\ kept = <<>>
    /\ processed = {}
    /\ report = None
    /\ global_answer = None
    /\ group_answer = None
    /\ keep_answer = None
    /\ declined = {}

SelIdle ==
    /\ sel_group = <<>>
    /\ sel_first = None
    /\ sel_second = None

\* What the operator types at a confirmation prompt, character by character.
ConfirmInputs ==
    {<<"y", "e", "s">>,
     <<" ", "Y", "E", "S", " ">>,
     <<"n", "o">>,
     <<" ", "S", "k", "i", "p">>,
     <<"y">>,
     <<>>}

\* str.strip() on typed text: leading and trailing blanks go.
RECURSIVE StripLeft(_)
StripLeft(text) ==
    IF text # <<>> /\ Head(text) = " " THEN StripLeft(Tail(text)) ELSE text

RECURSIVE StripRight(_)
StripRight(text) ==
    IF text # <<>> /\ text[Len(text)] = " "
    THEN StripRight(SubSeq(text, 1, Len(text) - 1)) ELSE text

\* str.lower() on one character of the typed alphabet.
LowerChar(c) ==
    CASE c = "Y" -> "y"
      [] c = "E" -> "e"
      [] c = "S" -> "s"
      [] OTHER -> c

\* input(...).strip().lower()
Normalise(text) ==
    LET stripped == StripRight(StripLeft(text))
    IN  [i \in 1..Len(stripped) |-> LowerChar(stripped[i])]

Yes == <<"y", "e", "s">>

Skip == <<"s", "k", "i", "p">>

\* Mutant of Proceeds: only a typed "no" stops the removal.
ProceedsUnlessNo(text) == Normalise(text) # <<"n", "o">>

\* The test both prompts make: the normalised answer is 'yes'.
Proceeds(text) == Normalise(text) = Yes

\* Mutant of ParseKeep: the range check lets the length itself through.
ParseKeepUpToLen(keep_input, n) ==
    IF keep_input.k = "empty" THEN 0
    ELSE IF keep_input.k = "junk" THEN 0
    ELSE IF keep_input.v - 1 < 0 \/ keep_input.v - 1 > n THEN 0
    ELSE keep_input.v - 1

\* input(...).strip() at the keep prompt: empty, not a number, or a number
KeepInputs ==
    {[k |-> "empty", v |-> 0], [k |-> "junk", v |-> 0]}
        \cup {[k |-> "int", v |-> n] : n \in (0 - 1)..(NumFiles + 1)}

\* The manual branch: int(keep_input) - 1 if keep_input else 0, with the
\* range check and the ValueError handler.
ParseKeep(keep_input, n) ==
    IF keep_input.k = "empty" THEN 0
    ELSE IF keep_input.k = "junk" THEN 0
    ELSE IF keep_input.v - 1 < 0 \/ keep_input.v - 1 >= n THEN 0
    ELSE keep_input.v - 1

\* Mutant of IsRemovalCandidate: the displayed number is taken for the idx.
IsRemovalCandidateByNumber(idx, keep) == idx + 1 # keep

\* `if idx != keep_idx`: the member is a candidate for deletion.
IsRemovalCandidate(idx, keep) == idx # keep

\* Mutant of CountAfter: every attempt counts, skipped files included.
CountAfterAttempt(outcome, n) == n + 1

\* total_removed after one attempt with the given outcome.
CountAfter(outcome, n) == IF outcome = "ok" THEN n + 1 ELSE n

\* Mutant of NextMember: a failed removal leaves the member loop.
NextMemberOrBreak(outcome, idx, n) == IF outcome # "ok" THEN n ELSE idx + 1

\* The idx the member loop looks at next: the try/except keeps it going.
NextMember(outcome, idx, n) == idx + 1

CurrentGroup == duplicates[gi].val

\* Entry: the global prompt when group_by_group is off.
BeginRemoval ==
    /\ rpc = "start"
    /\ IF ~group_by_group
       THEN \E user_input \in ConfirmInputs :
                /\ global_answer' = Some(user_input)
                /\ rpc' = IF ~Proceeds(user_input) THEN "canceled" ELSE "group"
       ELSE /\ rpc' = "group"
            /\ UNCHANGED global_answer
    /\ gi' = 1
    /\ UNCHANGED <<group_answer, keep_answer, declined>>
    /\ UNCHANGED <<auto_select_best, group_by_group, mi, keep_idx,
                   total_removed, total_space_saved, exists, deleted,
                   attempted, failed, kept, processed, report>>
    /\ UNCHANGED <<scanVars, selVars, extVars, parseVars>>

\* Top of the loop body: listing and the per-group prompt.
GroupPrompt ==
    /\ rpc = "group"
    /\ gi <= Len(duplicates)
    /\ IF group_by_group
       THEN \E confirm \in ConfirmInputs :
                IF Normalise(confirm) = Skip \/ ~Proceeds(confirm)
                THEN /\ gi' = gi + 1
                     /\ rpc' = "group"
                     /\ declined' = declined \cup {gi}
                     /\ UNCHANGED group_answer
                ELSE /\ gi' = gi
                     /\ rpc' = "keep"
                     /\ group_answer' = Some(confirm)
                     /\ UNCHANGED declined
       ELSE /\ gi' = gi
            /\ rpc' = "keep"
            /\ UNCHANGED <<group_answer, declined>>
    /\ UNCHANGED <<global_answer, keep_answer>>
    /\ UNCHANGED <<auto_select_best, group_by_group, mi, keep_idx,
                   total_removed, total_space_saved, exists, deleted,
                   attempted, failed, kept, processed, report>>
    /\ UNCHANGED <<scanVars, selVars, extVars, parseVars>>

\* keep_idx from suggest_best_file or from the operator.
ChooseKeep ==
    /\ rpc = "keep"
    /\ IF auto_select_best
       THEN /\ keep_idx' = suggest_best_file(CurrentGroup)
            /\ UNCHANGED keep_answer
       ELSE \E keep_input \in KeepInputs :
                /\ keep_answer' = Some(keep_input)
                /\ keep_idx' = ParseKeep(keep_input, Len(CurrentGroup))
    /\ UNCHANGED <<global_answer, group_answer, declined>>
    /\ kept' = [kept EXCEPT ![gi] = keep_idx']
    /\ mi' = 0
    /\ rpc' = "remove"
    /\ UNCHANGED <<auto_select_best, group_by_group, gi, total_removed,
                   total_space_saved, exists, deleted, attempted, failed,
                   processed, report>>
    /\ UNCHANGED <<scanVars, selVars, extVars, parseVars>>

\* One iteration of the member loop.  outcome is what os.access(W_OK) and
\* os.remove meet: "ok", "denied" (no write permission) or "raise".
RemoveMember ==
    /\ rpc = "remove"
    /\ mi < Len(CurrentGroup)
    /\ LET metadata == CurrentGroup[mi + 1]
       IN  IF IsRemovalCandidate(mi, keep_idx)
           THEN \E outcome \in {"ok", "denied", "raise"} :
                    /\ outcome = "ok" => metadata.path \in exists
                    /\ attempted' = attempted \cup {metadata.path}
                    /\ IF outcome = "ok"
                       THEN /\ exists' = exists \ {metadata.path}
                            /\ deleted' = deleted \cup {metadata.path}
                            /\ total_removed' = CountAfter(outcome, total_removed)
                            /\ total_space_saved' =
                                   total_space_saved + metadata.file_size
                            /\ UNCHANGED failed
                       ELSE /\ failed' = failed \cup {metadata.path}
                            /\ total_removed' = CountAfter(outcome, total_removed)
                            /\ UNCHANGED <<exists, deleted, total_space_saved>>
                    /\ mi' = NextMember(outcome, mi, Len(CurrentGroup))
           ELSE /\ mi' = mi + 1
                /\ UNCHANGED <<exists, deleted, attempted, failed,
                               total_removed, total_space_saved>>
    /\ UNCHANGED <<rpc, auto_select_best, group_by_group, gi, keep_idx, kept,
                   processed, report>>
    /\ UNCHANGED <<global_answer, group_answer, keep_answer, declined>>
    /\ UNCHANGED <<scanVars, selVars, extVars, parseVars>>

\* The member loop is exhausted: on to the next item of duplicates; the
\* answers of this iteration are not read again.
NextGroup ==
    /\ rpc = "remove"
    /\ mi = Len(CurrentGroup)
    /\ processed' = processed \cup {gi}
    /\ gi' = gi + 1
    /\ rpc' = "group"
    /\ UNCHANGED <<auto_select_best, group_by_group, mi, keep_idx,
                   total_removed, total_space_saved, exists, deleted,
                   attempted, failed, kept, report>>
    /\ group_answer' = None
    /\ keep_answer' = None
    /\ UNCHANGED <<global_answer, declined>>
    /\ UNCHANGED <<scanVars, selVars, extVars, parseVars>>

\* The final print.
Report ==
    /\ rpc = "group"
    /\ gi > Len(duplicates)
    /\ report' = Some(<<total_removed, total_space_saved>>)
    /\ rpc' = "done"
    /\ UNCHANGED <<auto_select_best, group_by_group, gi, mi, keep_idx,
                   total_removed, total_space_saved, exists, deleted,
                   attempted, failed, kept, processed>>
    /\ UNCHANGED <<global_answer, group_answer, keep_answer, declined>>
    /\ UNCHANGED <<scanVars, selVars, extVars, parseVars>>

\* --------------------------------------------------------- specifications
ScanNext ==
    \/ Probe
    \/ Enumerate
    \/ Submit
    \/ SubmitDone
    \/ \E p \in Paths : StartTask(p)
    \/ \E p \in Paths : FinishTask(p)
    \/ \E p \in Paths : Collect(p)
    \/ Group

Init == ScanInit /\ RemoveIdle /\ SelIdle /\ ExtIdle /\ ParseIdle

Next == ScanNext

\* The scan: process_images_parallel from its first line to its return.
Spec == Init /\ [][Next]_vars

\* The scan under the scheduling the interpreter and the pool give it: a
\* step that can be taken (the orchestrator's next statement, a free worker
\* taking a work item, a running call returning) is eventually taken.
FairSpec == Init /\ [][Next]_vars /\ WF_vars(Next)

Files == 1..NumFiles

\* The outcomes behind the records of a finished scan that found every file
\* readable, with the external tool unavailable.
FileEnvs ==
    {Env("ok", Some(SizeOf(c)), Some(DigestOf(c)), Run(TRUE, 0, ""), pil,
         Run(TRUE, 0, <<>>)) : c \in Contents, pil \in PilResults}

\* remove_duplicate_files is entered with the mapping a finished scan of
\* Files returned.
RemoveInit ==
    /\ \E envs \in [Files -> FileEnvs] :
           /\ future = [p \in Files |->
                            process_single_image(p, FALSE, envs[p]).value]
           /\ calls = [p \in Files |->
                           process_single_image(p, FALSE, envs[p]).calls]
    /\ pc = "done"
    /\ exiftool_available = Some(FALSE)
    /\ probes = 1
    /\ max_workers = 1
    /\ image_paths = SortedSeq(Files)
    /\ submitted = NumFiles
    /\ submits = [p \in Files |-> 1]
    /\ task = [p \in Files |-> "collected"]
    /\ task_flag = [p \in Files |-> Some(FALSE)]
    /\ access = [p \in Files |-> "ok"]
    /\ image_metadata_list = [i \in 1..NumFiles |-> future[i][1]]
    /\ duplicates = OnlyDuplicates(GroupByIdentifier(<<>>, image_metadata_list))
    /\ rpc = "start"
    /\ auto_select_best \in BOOLEAN
    /\ group_by_group \in BOOLEAN
    /\ gi = 0
    /\ mi = 0
    /\ keep_idx = 0
    /\ total_removed = 0
    /\ total_space_saved = 0
    /\ exists = Files
    /\ deleted = {}
    /\ attempted = {}
    /\ failed = {}
    /\ kept = [g \in 1..Len(duplicates) |-> 0 - 1]
    /\ processed = {}
    /\ report = None
    /\ global_answer = None
    /\ group_answer = None
    /\ keep_answer = None
    /\ declined = {}
    /\ SelIdle
    /\ ExtIdle
    /\ ParseIdle

RemoveNext ==
    \/ BeginRemoval
    \/ GroupPrompt
    \/ ChooseKeep
    \/ RemoveMember
    \/ NextGroup
    \/ Report

\* The removal executor: remove_duplicate_files on a returned mapping.
SpecRemove == RemoveInit /\ [][RemoveNext]_vars

\* Records suggest_best_file can be handed: resolution absent or a pair of
\* non-negative integers, any file size.
SelResolutions == {None, Some(<<0, 0>>), Some(<<4, 3>>), Some(<<8, 6>>)}

SelSizes == {0} \cup {SizeOf(c) : c \in Contents}

SelGroups ==
    UNION {[1..n -> SelResolutions \X SelSizes] : n \in 1..MaxGroupLen}

\* Groups whose members share a resolution parsed from a negative number.
SelNegativeGroups ==
    {[i \in 1..n |-> <<Some(<<0 - 4, 3>>), sz>>] :
        n \in 1..MaxGroupLen, sz \in SelSizes}

SelInit ==
    /\ \E g \in SelGroups \cup SelNegativeGroups :
           sel_group = [i \in DOMAIN g |->
                           ImageMetadata(i, g[i][2], None, None, g[i][1])]
    /\ sel_first = None
    /\ sel_second = None
    /\ ScanInit
    /\ max_workers = 1
    /\ RemoveIdle
    /\ ExtIdle
    /\ ParseIdle

\* keep_idx = suggest_best_file(dup_metadata)
SelectBest ==
    /\ sel_first = None
    /\ sel_first' = Some(suggest_best_file(sel_group))
    /\ UNCHANGED <<sel_group, sel_second>>
    /\ UNCHANGED <<scanVars, removeVars, extVars, parseVars>>

\* The same call once more on the same list.
SelectAgain ==
    /\ sel_first # None
    /\ sel_second = None
    /\ sel_second' = Some(suggest_best_file(sel_group))
    /\ UNCHANGED <<sel_group, sel_first>>
    /\ UNCHANGED <<scanVars, removeVars, extVars, parseVars>>

SelNext == SelectBest \/ SelectAgain

\* The selection policy applied to bounded lists.
SpecSel == SelInit /\ [][SelNext]_vars

\* ------------------------------------------- one extraction, by itself
ExtInit ==
    /\ ext_path \in Paths
    /\ ext_flag \in BOOLEAN
    /\ ext_env \in {Some(env) : env \in Envs}
    /\ ext_out = None
    /\ ScanInit
    /\ max_workers = 1
    /\ RemoveIdle
    /\ SelIdle
    /\ ParseIdle

\* metadata = process_single_image(image_path, exiftool_available)
Extract ==
    /\ ext_env # None
    /\ ext_out = None
    /\ ext_out' = Some(process_single_image(ext_path, ext_flag, ext_env[1]))
    /\ UNCHANGED <<ext_path, ext_flag, ext_env>>
    /\ UNCHANGED <<scanVars, removeVars, selVars, parseVars>>

ExtNext == Extract

\* process_single_image applied to every path, flag and environment.
SpecExtract == ExtInit /\ [][ExtNext]_vars

\* ---------------------------------------- one dimension query, parsed
MaxTokens == 4

ParseTokens ==
    {IntTok(0 - 4), IntTok(0), IntTok(3), IntTok(4), XTok, NlTok, JunkTok}

\* Every standard output of at most MaxTokens tokens.
ParseOutputs == UNION {[1..n -> ParseTokens] : n \in 0..MaxTokens}

\* Every run of the dimension query: raised or not, return code 0 or 1.
ParseRuns == {Run(exc, rc, out) : exc \in BOOLEAN, rc \in {0, 1},
                                  out \in ParseOutputs}

ParseInit ==
    /\ parse_run \in {Some(run) : run \in ParseRuns}
    /\ parse_out = None
    /\ ScanInit
    /\ max_workers = 1
    /\ RemoveIdle
    /\ SelIdle
    /\ ExtIdle

\* resolution = get_image_resolution_exiftool(image_path)
ParseResolution ==
    /\ parse_run # None
    /\ parse_out = None
    /\ parse_out' = Some(get_image_resolution_exiftool(parse_run[1]))
    /\ UNCHANGED parse_run
    /\ UNCHANGED <<scanVars, removeVars, selVars, extVars>>

ParseNext == ParseResolution

\* get_image_resolution_exiftool applied to bounded runs of the tool.
SpecParse == ParseInit /\ [][ParseNext]_vars

\* ----------------------------------------------------------- properties
Enumerated == Range(image_paths)

Collected == {image_metadata_list[i].path : i \in 1..Len(image_metadata_list)}

\* C1: every enumerated path is submitted to process_single_image exactly
\* once (never twice while submitting, exactly once when the submissions are
\* over, and no other path is submitted), the collected list never has more
\* records than there are enumerated paths, and it has at most one record
\* per path, each of an enumerated path.
C1_EachPathOnce ==
    /\ \A p \in Paths : submits[p] <= 1
    /\ \A p \in Paths : submits[p] = 1 => p \in Enumerated
    /\ pc \in {"collect", "done"} => \A p \in Enumerated : submits[p] = 1
    /\ pc = "done" => \A p \in Enumerated : task[p] = "collected"
    /\ Len(image_metadata_list) <= Len(image_paths)
    /\ Collected \subseteq Enumerated
    /\ \A i, j \in 1..Len(image_metadata_list) :
           image_metadata_list[i].path = image_metadata_list[j].path => i = j

\* A finished scan of all the files with two workers, every record collected.
C1_Witness ==
    /\ pc = "done"
    /\ Len(image_paths) = NumPaths
    /\ max_workers = 2
    /\ Len(image_metadata_list) = NumPaths

\* The key of a record as the data model states it.
C2_Key(m) ==
    <<IF m.camera_model = None THEN "" ELSE m.camera_model[1],
      IF m.hash = None THEN "" ELSE m.hash[1],
      IF m.resolution = None THEN <<0, 0>> ELSE m.resolution[1],
      m.file_size>>

InOneGroup(a, b) ==
    \E g \in 1..Len(duplicates) :
        /\ a \in Range(duplicates[g].val)
        /\ b \in Range(duplicates[g].val)

\* C2: in the returned mapping two different extracted records are members
\* of the same group if and only if their keys are equal, and no record is a
\* member of two groups or twice of one.
C2_GroupedIffEqualKeys ==
    pc = "done" =>
        /\ \A i, j \in 1..Len(image_metadata_list) :
               i # j =>
                   (InOneGroup(image_metadata_list[i], image_metadata_list[j])
                        <=> C2_Key(image_metadata_list[i])
                                = C2_Key(image_metadata_list[j]))
        /\ \A g, h \in 1..Len(duplicates) :
               \A i \in 1..Len(duplicates[g].val), j \in 1..Len(duplicates[h].val) :
                   duplicates[g].val[i] = duplicates[h].val[j] => g = h /\ i = j

\* Three records, two with one key in a group and a third with another key.
C2_Witness ==
    /\ pc = "done"
    /\ Len(image_metadata_list) = 3
    /\ Len(duplicates) = 1
    /\ Len(duplicates[1].val) = 2

\* C3: every group of the returned mapping has at least two members, and a
\* record whose key no other record shares is in no group.
C3_NoSingletonGroups ==
    /\ \A g \in 1..Len(duplicates) : Len(duplicates[g].val) >= 2
    /\ pc = "done" =>
           \A i \in 1..Len(image_metadata_list) :
               (\A j \in 1..Len(image_metadata_list) :
                    j # i => C2_Key(image_metadata_list[j])
                                 # C2_Key(image_metadata_list[i]))
                   => \A g \in 1..Len(duplicates) :
                          image_metadata_list[i] \notin Range(duplicates[g].val)

\* Three records with three different keys: nothing is reported.
C3_Witness ==
    /\ pc = "done"
    /\ Len(image_metadata_list) = 3
    /\ duplicates = <<>>
    /\ \A i, j \in 1..3 :
           i # j => C2_Key(image_metadata_list[i]) # C2_Key(image_metadata_list[j])

C5_Score(m) ==
    9000000 * (IF m.resolution = None THEN 0
               ELSE m.resolution[1][1] * m.resolution[1][2])
        + m.file_size

\* C5: for a non-empty list suggest_best_file returns an index of the list
\* whose score is the maximum, the smallest such index; a repeated call on
\* the same list returns the same index; when all scores are equal it is 0.
C5_FirstMaxScore ==
    sel_first # None =>
        LET k == sel_first[1]
            n == Len(sel_group)
        IN  /\ k \in 0..(n - 1)
            /\ \A j \in 0..(n - 1) :
                   C5_Score(sel_group[j + 1]) <= C5_Score(sel_group[k + 1])
            /\ \A j \in 0..(k - 1) :
                   C5_Score(sel_group[j + 1]) < C5_Score(sel_group[k + 1])
            /\ sel_second # None => sel_second = sel_first
            /\ (\A j \in 1..n : C5_Score(sel_group[j]) = C5_Score(sel_group[1]))
                   => k = 0

\* Three records, the maximum shared by the second and third: index 1 is
\* returned, twice.
C5_Witness ==
    /\ Len(sel_group) = 3
    /\ C5_Score(sel_group[1]) < C5_Score(sel_group[2])
    /\ C5_Score(sel_group[2]) = C5_Score(sel_group[3])
    /\ sel_group[2].file_size > 0
    /\ sel_first = Some(1)
    /\ sel_second = Some(1)

Member(g, idx) == duplicates[g].val[idx + 1]

Others(g) == {idx \in 0..(Len(duplicates[g].val) - 1) : idx # kept[g]}

Chosen == {g \in 1..Len(duplicates) : kept[g] >= 0}

\* C6: the member at the keep-index is never deleted and stays on disk; once
\* a group has been processed and every other member was writable and its
\* delete succeeded, every other member is gone from the disk.
C6_AllButKeptDeleted ==
    /\ \A g \in Chosen :
           /\ Member(g, kept[g]).path \notin deleted
           /\ Member(g, kept[g]).path \in exists
    /\ \A g \in processed :
           (\A idx \in Others(g) : Member(g, idx).path \notin failed)
               => \A idx \in Others(g) :
                      /\ Member(g, idx).path \notin exists
                      /\ Member(g, idx).path \in deleted

\* A group of three processed with the second member kept, the other two
\* deleted.
C6_Witness ==
    /\ rpc = "done"
    /\ \E g \in processed :
           /\ Len(duplicates[g].val) = 3
           /\ kept[g] = 1
           /\ Member(g, 0).path \in deleted
           /\ Member(g, 2).path \in deleted
           /\ Member(g, 1).path \in exists

\* C7: a member that lacks write permission, or whose delete raises, stays
\* in place; the removal of every other non-kept member of its group is
\* still attempted; the run goes on to the later groups and to the report
\* (every group is processed, or declined by the operator in per-group
\* mode); the reported count is non-zero when some deletion succeeded.
C7_FailureSkipsOneFile ==
    /\ failed \subseteq exists
    /\ failed \cap deleted = {}
    /\ \A g \in processed :
           \A idx \in Others(g) : Member(g, idx).path \in attempted
    /\ rpc = "done" =>
           /\ Chosen \subseteq processed
           /\ ~group_by_group => processed = 1..Len(duplicates)
    /\ report # None => (deleted # {} => report[1][1] > 0)

\* A group of three whose second member could not be removed and whose third
\* member was removed after that, then a later group with a removed member.
C7_Witness ==
    /\ rpc = "done"
    /\ \E g, h \in processed :
           /\ g < h
           /\ Len(duplicates[g].val) = 3
           /\ kept[g] = 0
           /\ Member(g, 1).path \in failed
           /\ Member(g, 2).path \in deleted
           /\ \E idx \in Others(h) : Member(h, idx).path \in deleted
    /\ report[1][1] = 2

\* Sum of the recorded sizes of the records whose path is in S.
RecordedSize(S) ==
    SeqSum([i \in 1..Len(image_metadata_list) |->
               IF image_metadata_list[i].path \in S
               THEN image_metadata_list[i].file_size ELSE 0])

\* C8: after every step of the member loop, and in the final report,
\* total_removed is the number of files deleted and total_space_saved the sum
\* of their recorded sizes; a skipped file is in neither.
C8_TotalsMatchDeletions ==
    /\ total_removed = Cardinality(deleted)
    /\ total_space_saved = RecordedSize(deleted)
    /\ failed \cap deleted = {}
    /\ report # None =>
           report = Some(<<Cardinality(deleted), RecordedSize(deleted)>>)

\* A report after deletions of files of two sizes and a skipped file.
C8_Witness ==
    /\ rpc = "done"
    /\ failed # {}
    /\ \E p, q \in deleted : RecordedSize({p}) # RecordedSize({q})
    /\ report # None

\* C9: the probe runs once, before anything is submitted; every submitted
\* extraction got the probe's result as its flag, so all workers see the
\* same value, and no external or native call is made before the probe.
C9_ProbeOnceBeforeWorkers ==
    /\ probes <= 1
    /\ pc # "probe" => probes = 1 /\ exiftool_available # None
    /\ \A p \in Paths :
           task[p] # "none" =>
               /\ probes = 1
               /\ exiftool_available # None
               /\ task_flag[p] = exiftool_available
    /\ \A p \in Paths : calls[p] # <<>> => probes = 1
    /\ \A p, q \in Paths :
           task_flag[p] # None /\ task_flag[q] # None
               => task_flag[p] = task_flag[q]

\* Two extractions running at once and one finished, all with the flag the
\* probe returned, the tool being available.
C9_Witness ==
    /\ exiftool_available = Some(TRUE)
    /\ Cardinality(Running) = 2
    /\ \E p \in Paths : task[p] = "finished" /\ "exif_model" \in Range(calls[p])

\* C10: when the probe found the tool unavailable, no extraction calls it,
\* every record has no camera model, every .arw record has no resolution,
\* and a standard-format record has no resolution when the native decode
\* failed.
C10_UnavailableMeansAbsent ==
    exiftool_available = Some(FALSE) =>
        \A p \in Paths :
            /\ "exif_model" \notin Range(calls[p])
            /\ "exif_res" \notin Range(calls[p])
            /\ future[p] # None =>
                   /\ future[p][1].camera_model = None
                   /\ Suffix(p) = ".arw" => future[p][1].resolution = None
                   /\ (Suffix(p) \in StandardExts
                          /\ "pil_fail" \in Range(calls[p]))
                          => future[p][1].resolution = None

\* A finished scan without the tool: a .arw record and a standard-format
\* record whose native decode failed, both collected.
C10_Witness ==
    /\ exiftool_available = Some(FALSE)
    /\ pc = "done"
    /\ \E p, q \in Collected :
           /\ Suffix(p) = ".arw"
           /\ future[p][1].hash # None
           /\ Suffix(q) \in StandardExts
           /\ "pil_fail" \in Range(calls[q])


\* The records of path p in the collected list.
RecordsOf(p) ==
    {i \in 1..Len(image_metadata_list) : image_metadata_list[i].path = p}

C11_Isolated ==
    \A p \in Paths :
        /\ access[p] = "raise" => future[p] = None /\ RecordsOf(p) = {}
        /\ (task[p] = "collected" /\ access[p] = "ok") =>
               /\ future[p] # None
               /\ \E i \in RecordsOf(p) : image_metadata_list[i] = future[p][1]
        /\ (pc = "done" /\ p \in Enumerated) => task[p] = "collected"

\* C11: a file whose extraction raised has no result and no record in the
\* collected list; every other enumerated file that was readable has, once
\* its future was collected, its own record in the list, whatever happened to
\* its siblings; a finished scan has collected every enumerated file; and a
\* scan in which an extraction raised still reaches grouping.
C11_RaiseLosesOnlyItself ==
    /\ []C11_Isolated
    /\ (\E p \in Paths : access[p] = "raise") ~> (pc = "done")

\* A finished scan of three files: the extraction of the one collected first
\* raised, the two collected after it left their records.
C11_Witness ==
    /\ pc = "done"
    /\ Len(image_paths) = 3
    /\ Len(image_metadata_list) = 2
    /\ \E p \in Paths :
           /\ access[p] = "raise"
           /\ \A q \in Paths \ {p} : access[q] = "ok" /\ RecordsOf(q) # {}


\* C12: for every provider output, get_image_resolution_exiftool returns
\* absent or a pair of two positive integers.
C12_AbsentOrPositivePair ==
    parse_out # None =>
        \/ parse_out[1] = None
        \/ parse_out[1][1][1] > 0 /\ parse_out[1][1][2] > 0


Records == Range(image_metadata_list)

\* C13: a file whose hash read failed has hash None in its result, and a
\* collected record without a hash never has the key of a collected record
\* with a hash, nor shares a returned group with one.
C13_UnhashedNeverCollides ==
    /\ \A p \in Paths :
           ("hash_fail" \in Range(calls[p]) /\ future[p] # None)
               => future[p][1].hash = None
    /\ \A a, b \in Records :
           (a.hash = None /\ b.hash # None) =>
               /\ C2_Key(a) # C2_Key(b)
               /\ get_identifier(a) # get_identifier(b)
               /\ ~InOneGroup(a, b)

\* A finished scan of three files of equal size, camera model and
\* resolution: two were hashed and form a group, the third was not.
C13_Witness ==
    /\ pc = "done"
    /\ Len(duplicates) = 1
    /\ \E a, b, c \in Records :
           /\ "hash_fail" \in Range(calls[a.path])
           /\ a.hash = None /\ b.hash # None /\ c.hash = b.hash
           /\ b # c
           /\ InOneGroup(b, c)
           /\ a.file_size = b.file_size
           /\ a.camera_model = b.camera_model
           /\ a.resolution = b.resolution


ArwPaths == {p \in Paths : Suffix(p) = ".arw"}

\* p was readable: the permission check passed, its stat and its hash read
\* succeeded.
Readable(p) ==
    /\ access[p] = "ok"
    /\ "stat_ok" \in Range(calls[p])
    /\ "hash_ok" \in Range(calls[p])

\* C14: after a scan that found the tool unavailable, the records of two
\* readable .arw files of identical content (equal digest) have no camera
\* model and no resolution, equal hash and equal size, and are members of one
\* returned group; that group has exactly two members when no third record
\* has their key.
C14_ArwTwinsGrouped ==
    (pc = "done" /\ exiftool_available = Some(FALSE)) =>
        \A p, q \in ArwPaths :
            (/\ p # q
             /\ Readable(p) /\ Readable(q)
             /\ future[p][1].hash = future[q][1].hash) =>
                LET a == future[p][1]
                    b == future[q][1]
                IN  /\ a.camera_model = None /\ b.camera_model = None
                    /\ a.resolution = None /\ b.resolution = None
                    /\ a.hash # None
                    /\ a.file_size = b.file_size
                    /\ \E g \in 1..Len(duplicates) :
                           /\ {a, b} \subseteq Range(duplicates[g].val)
                           /\ (\A c \in Records \ {a, b} :
                                   C2_Key(c) # C2_Key(a))
                                  => Len(duplicates[g].val) = 2

\* A finished scan with two workers and without the tool: the two .arw
\* files are twins and form the only group, of size 2, the second of them
\* collected first; the third file was collected too.
C14_Witness ==
    /\ pc = "done"
    /\ exiftool_available = Some(FALSE)
    /\ max_workers = 2
    /\ Len(image_metadata_list) = 3
    /\ Len(duplicates) = 1
    /\ Len(duplicates[1].val) = 2
    /\ \E p, q \in ArwPaths :
           /\ p < q
           /\ Readable(p) /\ Readable(q)
           /\ duplicates[1].val = <<future[q][1], future[p][1]>>


\* C15: for a file that passed the permission check, process_single_image
\* returns a record of that path whatever steps failed: file_size is the
\* stat's size, 0 when the stat failed; hash is the digest, None when the
\* read failed; camera_model is the stripped output of a successful call
\* made with the tool available, None otherwise; resolution is what
\* get_image_resolution returned.  No field depends on another step.
C15_OnlyFailedFieldDegraded ==
    (ext_out # None /\ ext_env[1].access = "ok") =>
        LET env == ext_env[1]
            out == ext_out[1].value
        IN  /\ out # None
            /\ out[1].path = ext_path
            /\ out[1].file_size = (IF env.stat = None THEN 0 ELSE env.stat[1])
            /\ out[1].hash = env.digest
            /\ out[1].camera_model =
                   (IF ext_flag /\ ~env.cam.exc /\ env.cam.rc = 0
                       /\ env.cam.out # ""
                    THEN Some(env.cam.out) ELSE None)
            /\ out[1].resolution =
                   get_image_resolution(ext_path, ext_flag, env.pil,
                                        env.res).value

\* The hash read failed and nothing else: the record has no hash, and its
\* size, camera model and resolution are there.
C15_Witness ==
    /\ ext_out # None
    /\ ext_env[1].access = "ok"
    /\ ext_env[1].digest = None
    /\ ext_out[1].value # None
    /\ ext_out[1].value[1].hash = None
    /\ ext_out[1].value[1].file_size > 0
    /\ ext_out[1].value[1].camera_model # None
    /\ ext_out[1].value[1].resolution # None


\* The positions of call c in the calls of the extraction.
Positions(c) ==
    {i \in 1..Len(ext_out[1].calls) : ext_out[1].calls[i] = c}

\* C16: in an extraction of a standard-format file, the tool is asked for
\* the resolution only when the flag is set and only after a native decode
\* that failed, and then it is asked once; after a native decode that
\* succeeded it is not asked; in an extraction of an .arw file the native
\* decode is never attempted.
C16_NativeFirstToolOnlyAfterFailure ==
    ext_out # None =>
        /\ Suffix(ext_path) \in StandardExts =>
               /\ \A i \in Positions("exif_res") :
                      /\ ext_flag
                      /\ \E j \in Positions("pil_fail") : j < i
               /\ Positions("pil_ok") # {} => Positions("exif_res") = {}
               /\ (Positions("pil_fail") # {} /\ ext_flag)
                      => Cardinality(Positions("exif_res")) = 1
               /\ ext_env[1].access = "ok" =>
                      Cardinality(Positions("pil_ok") \cup Positions("pil_fail"))
                          = 1
        /\ Suffix(ext_path) = ".arw" =>
               /\ Positions("pil_ok") = {}
               /\ Positions("pil_fail") = {}

\* A standard-format file whose native decode failed, the tool available:
\* the tool was asked after the failure and gave the resolution.
C16_Witness ==
    /\ ext_out # None
    /\ Suffix(ext_path) \in StandardExts
    /\ ext_flag
    /\ Positions("pil_fail") # {}
    /\ Positions("exif_res") # {}
    /\ ext_out[1].value # None
    /\ ext_out[1].value[1].resolution = Some(<<4, 3>>)


\* The place of record m in the collected list.
CollectedAt(m) ==
    CHOOSE i \in 1..Len(image_metadata_list) : image_metadata_list[i] = m

\* C17: in every returned group the members are in the order in which their
\* futures were collected: a member collected before another member of the
\* same group has the smaller index.
C17_GroupKeepsCollectionOrder ==
    pc = "done" =>
        \A g \in 1..Len(duplicates) :
            \A i, j \in 1..Len(duplicates[g].val) :
                /\ duplicates[g].val[i] \in Records
                /\ CollectedAt(duplicates[g].val[i])
                       < CollectedAt(duplicates[g].val[j]) => i < j

\* A returned group of three whose members were collected in an order that
\* is not the order of enumeration.
C17_Witness ==
    /\ pc = "done"
    /\ image_paths = <<1, 2, 3>>
    /\ \E g \in 1..Len(duplicates) :
           /\ Len(duplicates[g].val) = 3
           /\ duplicates[g].val[1].path = 2
           /\ duplicates[g].val[2].path = 3
           /\ duplicates[g].val[3].path = 1


\* How many times the extraction of p made call c.
CallCount(p, c) ==
    Cardinality({i \in 1..Len(calls[p]) : calls[p][i] = c})

C18_NoRetry ==
    \A p \in Paths :
        /\ CallCount(p, "exif_model") <= 1
        /\ CallCount(p, "exif_res") <= 1
        /\ submits[p] <= 1

C18_AllCompleted ==
    /\ pc = "done"
    /\ \A p \in Enumerated : task[p] = "collected"

\* C18: no extraction calls the tool more than once for the camera model or
\* more than once for the resolution, and no path is submitted twice; under
\* fair scheduling every scan reaches the state in which every submitted
\* extraction has completed and been collected and the grouping is done.
C18_NoRetryAndTermination ==
    /\ []C18_NoRetry
    /\ <>C18_AllCompleted

\* A finished scan of three files on fewer workers, the tool available: the
\* camera-model call of one file and the resolution call of another timed
\* out, and each was made once.
C18_Witness ==
    /\ pc = "done"
    /\ Len(image_paths) = 3
    /\ max_workers < 3
    /\ exiftool_available = Some(TRUE)
    /\ \A p \in Paths : task[p] = "collected"
    /\ \E p, q \in Paths :
           /\ p # q
           /\ CallCount(p, "exif_model") = 1
           /\ future[p] # None /\ future[p][1].camera_model = None
           /\ CallCount(q, "exif_res") = 1
           /\ future[q] # None /\ future[q][1].resolution = None


Groups == 1..Len(duplicates)

GroupPaths(g) == {duplicates[g].val[i].path : i \in 1..Len(duplicates[g].val)}

\* The groups whose member loop has been entered.
Entered == processed \cup (IF rpc = "remove" THEN {gi} ELSE {})

\* C19 as stated: nothing is deleted unless the operator typed exactly yes,
\* at the single prompt in global mode, at the group's prompt in per-group
\* mode.
C19_OnlyOnExactYes ==
    /\ (~group_by_group /\ attempted # {}) => global_answer = Some(Yes)
    /\ (group_by_group /\ rpc \in {"keep", "remove"})
           => group_answer = Some(Yes)

\* C19 amended: no removal is tried without an answer that is 'yes' once
\* stripped and lower-cased.  In global mode any other answer cancels with
\* every file in place.  In per-group mode the keep prompt and the member
\* loop of a group are reached only on such an answer to that group's
\* prompt, removals are tried only in groups so entered, a declined group
\* keeps all its members on disk, and at the report every group has been
\* offered: each was processed or declined.
C19_OnlyOnNormalisedYes ==
    /\ ~group_by_group =>
           /\ rpc # "start" => global_answer # None
           /\ (global_answer # None /\ Normalise(global_answer[1]) # Yes) =>
                  /\ rpc = "canceled"
                  /\ attempted = {} /\ deleted = {} /\ exists = Files
           /\ attempted # {} => Normalise(global_answer[1]) = Yes
           /\ declined = {}
    /\ group_by_group =>
           /\ global_answer = None
           /\ rpc \in {"keep", "remove"} =>
                  /\ group_answer # None
                  /\ Normalise(group_answer[1]) = Yes
                  /\ gi \notin declined
           /\ declined \cap processed = {}
           /\ \A g \in declined :
                  /\ GroupPaths(g) \subseteq exists
                  /\ GroupPaths(g) \cap attempted = {}
           /\ rpc = "done" => processed \cup declined = Groups
    /\ attempted \subseteq UNION {GroupPaths(g) : g \in Entered}

\* Per-group mode, two groups: the first was declined and has all its
\* members, the second was accepted with an answer that is not literally
\* yes and has lost a member.
C19_Witness ==
    /\ rpc = "remove"
    /\ group_by_group
    /\ Len(duplicates) = 2
    /\ declined = {1}
    /\ gi = 2
    /\ mi = Len(CurrentGroup)
    /\ group_answer # None
    /\ group_answer[1] # Yes
    /\ GroupPaths(1) \subseteq exists
    /\ GroupPaths(2) \cap deleted # {}

\* What the keep prompt's answer has to give for a group of n members.
C20_Expected(keep_input, n) ==
    IF keep_input.k = "int" /\ keep_input.v >= 1 /\ keep_input.v <= n
    THEN keep_input.v - 1 ELSE 0

\* C20: the keep-index the member loop uses is within 0..len(group)-1: in
\* manual mode it is the typed number minus one when that number is within
\* 1..len(group), and 0 for an empty, non-numeric, zero, negative or
\* too-large answer; every processed group has its designated member on
\* disk and untouched, and at most len(group)-1 removals were tried in it.
C20_KeepIndexInRange ==
    /\ rpc = "remove" =>
           /\ keep_idx \in 0..(Len(CurrentGroup) - 1)
           /\ kept[gi] = keep_idx
           /\ ~auto_select_best =>
                  /\ keep_answer # None
                  /\ keep_idx = C20_Expected(keep_answer[1], Len(CurrentGroup))
    /\ \A g \in processed :
           /\ kept[g] \in 0..(Len(duplicates[g].val) - 1)
           /\ Member(g, kept[g]).path \in exists
           /\ Member(g, kept[g]).path \notin attempted
           /\ Cardinality(GroupPaths(g) \cap attempted)
                  <= Len(duplicates[g].val) - 1
           /\ Cardinality(GroupPaths(g) \cap deleted)
                  <= Len(duplicates[g].val) - 1

\* Manual mode: the operator typed a number one above the size of a group of
\* three; the first member was kept and the other two were deleted.
C20_Witness ==
    /\ ~auto_select_best
    /\ rpc = "remove"
    /\ Len(CurrentGroup) = 3
    /\ mi = 3
    /\ keep_answer = Some([k |-> "int", v |-> 4])
    /\ keep_idx = 0
    /\ Member(gi, 0).path \in exists
    /\ Cardinality(GroupPaths(gi) \cap deleted) = 2

====
